---- MODULE Spec2Model ----
(***************************************************************************)
(* RadCam Spy (src/app/main.py): the monitor run lifecycle.                *)
(*                                                                         *)
(* Flask serves every request on its own thread, so the handlers           *)
(* start_monitor, stop_monitor, delete_log and post_settings interleave    *)
(* with each other and with every monitor_loop thread between any two      *)
(* statements that are not inside the same `with monitor_lock:` block.     *)
(* One step of a thread is one access to shared state (a read or a write   *)
(* of a global, of the settings file, of the log directory, of the clock   *)
(* or of the network) with the thread-local statements around it. A        *)
(* `with monitor_lock:` block is two steps: the statement before it        *)
(* together with the acquisition of the lock, then the body of the block   *)
(* together with the release. The statements so joined to an acquisition   *)
(* commute with every body of a monitor_lock block, which touch            *)
(* monitor_state alone.                                                    *)
(*                                                                         *)
(* Spec is the run lifecycle. WsSpec is the Cockpit WebSocket fan-out      *)
(* (ws_handler, ws_broadcast and its _send coroutine on the asyncio loop,  *)
(* where coroutines interleave at every await). SampleSpec is the sampling  *)
(* loop of one run with the content of its samples (snapshot,              *)
(* fetch_isp_info, compute_cpu_percent, the log lines) and the status      *)
(* readers of get_status. ReadSpec is the derivation of log_data and       *)
(* live_data over the records of a log file.                               *)
(***************************************************************************)
EXTENDS Integers, Sequences, FiniteSets, TLC

\* ---------------------------------------------------------------- bounds

\* monitor_loop threads that can be started in one behaviour
MaxRuns == 2
\* requests served in one behaviour, each on its own Flask thread
MaxRequests == 3
\* snapshots one monitor_loop takes before its next snapshot raises
MaxTicks == 2
\* the wall clock runs from second 0 to second MaxClock
MaxClock == 1
\* Cockpit WebSocket clients that connect in one behaviour of WsSpec
MaxClients == 2
\* ws_broadcast calls in one behaviour of WsSpec
MaxBroadcasts == 2
\* lines of a log file
MaxLines == 2
\* requests for the records of a log
MaxCalls == 2

\* ------------------------------------------------------------- constants

\* intervals are counted in half-seconds, the clock in seconds
HalfSecondsPerSecond == 2
\* interval floor max(0.5, ...) in half-seconds
MinInterval == 1
\* DEFAULT_SETTINGS["interval"] = 2.0 seconds, in half-seconds
DefaultInterval == 4

\* Flask request-handler threads, in the order the requests arrive (their
\* thread ids lie above those of the monitor loops)
Reqs == { 100 + i : i \in 1..MaxRequests }
\* monitor_loop threads, in the order they are started
Loops == 1..MaxRuns

\* monitor_lock is free
NoThread == 0
\* monitor_thread = None
NoLoop == 0
\* current_log = None
NoLog == -1
\* no file object: f before open() and after the `with open` block
NoFile == 0
\* error = None
NoError == "None"
\* last_sample = None / prev_snap = None
NoSnap == [ts |-> -1, n |-> 0]

DEFAULT_SETTINGS ==
    [camera_ip |-> "192.168.2.10",
     telnet_password |-> "",
     interval |-> DefaultInterval,
     cockpit_vars |-> <<"temp_c", "core_volt">>]

\* JSON bodies posted to /api/settings: the keys present and their values
Payloads ==
    { [keys |-> {"telnet_password"}, camera_ip |-> "", telnet_password |-> "secret",
       interval |-> 0, cockpit_vars |-> <<>>],
      [keys |-> {"telnet_password"}, camera_ip |-> "", telnet_password |-> "",
       interval |-> 0, cockpit_vars |-> <<>>],
      [keys |-> {"camera_ip", "interval", "cockpit_vars"}, camera_ip |-> " 192.168.2.11 ",
       telnet_password |-> "", interval |-> 0, cockpit_vars |-> <<"temp_c">>] }

VARIABLES
    monitor_lock,        \* the thread inside a `with monitor_lock:` block, or NoThread
    monitor_thread,      \* the monitor_loop thread started last, or NoLoop
    monitor_stop_event,  \* the flag of the threading.Event
    monitor_state,       \* the RunState dict
    settings_file,       \* what load_settings() returns (SETTINGS_FILE merged over the defaults)
    logs,                \* LOGS_DIR: log name -> [ino, lines] of each file that exists; ino is the thread that created it
    now,                 \* the wall clock: its whole second
    req,                 \* request-handler threads: the handler, its pc, its <name> and its response
    loop,                \* monitor_loop threads: pc and locals
    ws_clients,          \* the set ws_clients
    ws_conn,             \* each websocket: "new", "open", "closed" by the peer, "gone" (handler ended)
    ws_recv,             \* each websocket: the sample messages its peer has received, in order
    ws_calls,            \* ws_broadcast calls that have returned to monitor_loop
    ws_tasks,            \* the _send coroutine of each ws_broadcast call
    sampler,             \* SampleSpec: the monitor_loop thread inside its sampling loop: pc and locals
    heap,                \* SampleSpec: the dict objects snapshot() has created: object -> its content
    device,              \* SampleSpec: the camera's /proc/stat counters
    log_lines,           \* SampleSpec: the lines written to the run's log, as written
    reader               \* ReadSpec: the log file read, the handler reading it and its calls so far

\* the variables of the run lifecycle
run_vars == <<monitor_lock, monitor_thread, monitor_stop_event, monitor_state,
              settings_file, logs, now, req, loop>>

\* the variables of the WebSocket fan-out
ws_vars == <<ws_clients, ws_conn, ws_recv, ws_calls, ws_tasks>>

\* the variables of the sampling loop in detail
sample_vars == <<sampler, heap, device, log_lines>>

\* the variables of the log readers
read_vars == <<reader>>

\* the variables no step of the run lifecycle changes
beside_run == <<ws_vars, sample_vars, read_vars>>

vars == <<monitor_lock, monitor_thread, monitor_stop_event, monitor_state,
          settings_file, logs, now, req, loop,
          ws_clients, ws_conn, ws_recv, ws_calls, ws_tasks,
          sampler, heap, device, log_lines, reader>>

Max(a, b) == IF a >= b THEN a ELSE b

\* ------------------------------------------------------------ pure helpers

\* str.strip() on the addresses the payloads carry
Strip(s) == IF s = " 192.168.2.11 " THEN "192.168.2.11" ELSE s

\* f"radcam_{datetime.now().strftime('%Y%m%d_%H%M%S')}.ndjson": the name
\* carries the second of the clock and nothing finer; a name is that second
LogName(t) == t

LogNames == { LogName(t) : t \in 0..MaxClock }

\* the dict start_monitor installs
FreshState(t) ==
    [running |-> TRUE, error |-> NoError, samples |-> 0, start_time |-> t,
     last_sample |-> NoSnap, current_log |-> NoLog]

\* the thread object before start() and its locals before line 329; a local
\* that is not read again before it is next assigned goes back to its value
\* here; login_ret is what tn.login() returned, starter the request thread that
\* created the thread
NewLoop ==
    [pc |-> "unborn", settings |-> DEFAULT_SETTINGS, host |-> "", password |-> "",
     interval |-> 0, tn |-> "none", log_filename |-> NoLog, f |-> NoFile,
     snap |-> NoSnap, prev_snap |-> NoSnap, exc |-> NoError, notified |-> FALSE,
     wait_ret |-> FALSE,
     ticks |-> 0, sent_password |-> "", fetch_host |-> "", sleep_time |-> 0,
     selected |-> <<>>, login_ret |-> FALSE, starter |-> NoThread]

\* threading.Thread.is_alive()
IsAlive(l) == loop[l].pc \notin {"unborn", "done", "crashed"}

\* the module globals of lines 46-56, no request yet and no thread started
MonitorIdle ==
    /\ monitor_lock = NoThread
    /\ monitor_thread = NoLoop
    /\ monitor_stop_event = FALSE
    /\ monitor_state = [running |-> FALSE, error |-> NoError, samples |-> 0,
                        start_time |-> -1, last_sample |-> NoSnap, current_log |-> NoLog]
    /\ logs = << >>
    /\ now = 0
    /\ req = [r \in Reqs |-> [op |-> "none", pc |-> "idle", name |-> NoLog, resp |-> "none"]]
    /\ loop = [l \in Loops |-> NewLoop]

\* Cockpit WebSocket clients, in the order they connect
Clients == 1..MaxClients
\* no websocket: the _send coroutine is between two clients
NoClient == 0
\* the _send coroutine of the i-th ws_broadcast call
Tasks == 1..MaxBroadcasts

\* a ws_broadcast call that has not been made
NoTask ==
    [pc |-> "none", snap |-> << >>, messages |-> << >>, copy |-> {}, rest |-> {},
     client |-> NoClient, msg |-> 0, dead |-> {}]

\* lines 61-62: ws_clients = set(), no broadcast yet
WsIdle ==
    /\ ws_clients = {}
    /\ ws_conn = [c \in Clients |-> "new"]
    /\ ws_recv = [c \in Clients |-> << >>]
    /\ ws_calls = 0
    /\ ws_tasks = [t \in Tasks |-> NoTask]

\* no dict object: None
NoObject == 0

\* /proc/stat of the camera when a run begins: user, nice, system, idle,
\* iowait, irq, softirq, steal
BootCounters == <<1, 0, 0, 1, 1, 0, 0, 0>>

\* no sampling loop entered
SampleIdle ==
    /\ sampler = [pc |-> "unborn", snap |-> NoObject, prev_snap |-> NoObject,
                  ticks |-> 0, exc |-> NoError]
    /\ heap = << >>
    /\ device = BootCounters
    /\ log_lines = << >>

\* a record that is not there
NoRecord == [ts |-> -1]

\* no request for the records of a log yet, and no log file
NoReader ==
    [file |-> {}, pc |-> "idle", handler |-> "none", limit |-> 0, input |-> << >>,
     lines |-> << >>, prev |-> {}, records |-> << >>, resp |-> "none", calls |-> << >>]

ReadIdle == reader = NoReader

Init ==
    /\ MonitorIdle
    /\ settings_file \in {DEFAULT_SETTINGS, [DEFAULT_SETTINGS EXCEPT !.telnet_password = "secret"]}
    /\ WsIdle
    /\ SampleIdle
    /\ ReadIdle

\* `with monitor_lock:` entered by thread t
Acquire(t) == monitor_lock = NoThread /\ monitor_lock' = t

\* the end of thread t's `with monitor_lock:` block
Release(t) == monitor_lock = t /\ monitor_lock' = NoThread

\* request r arrives: the requests before it have arrived
Arrives(r) ==
    /\ req[r].pc = "idle"
    /\ \A q \in Reqs : q < r => req[q].pc # "idle"

\* a handler returns its response
Return(r, resp) == [req[r] EXCEPT !.pc = "returned", !.name = NoLog, !.resp = resp]

\* ------------------------------------------------- POST /api/start

\* threads the model can still start, less the start requests in flight
MayStart ==
    Cardinality({l \in Loops : loop[l].pc # "unborn"})
      + Cardinality({r \in Reqs : req[r].op = "start" /\ req[r].pc # "returned"}) < MaxRuns

\* line 464: with monitor_lock
StartEnter(r) ==
    /\ Arrives(r)
    /\ MayStart
    /\ Acquire(r)
    /\ req' = [req EXCEPT ![r] = [op |-> "start", pc |-> "start_check", name |-> NoLog, resp |-> "none"]]
    /\ UNCHANGED <<monitor_thread, monitor_stop_event, monitor_state, settings_file, logs, now, loop>>
    /\ UNCHANGED beside_run

\* a start_monitor that resets the counters before it finds the run active
AlreadyMonitoringAfterReset == [monitor_state EXCEPT !.samples = 0, !.current_log = NoLog]

\* the RunState a start request leaves behind when it finds a run active
AlreadyMonitoring == monitor_state

\* lines 465-466: if monitor_state["running"]: return 400
StartCheck(r) ==
    /\ req[r].pc = "start_check"
    /\ Release(r)
    /\ IF monitor_state.running
         THEN /\ req' = [req EXCEPT ![r] = Return(r, "400 Already monitoring")]
              /\ monitor_state' = AlreadyMonitoring
         ELSE /\ req' = [req EXCEPT ![r].pc = "start_load"]
              /\ UNCHANGED monitor_state
    /\ UNCHANGED <<monitor_thread, monitor_stop_event, settings_file, logs, now, loop>>
    /\ UNCHANGED beside_run

\* lines 468-470: settings = load_settings(); no password: return 400
StartLoad(r) ==
    /\ req[r].pc = "start_load"
    /\ req' = [req EXCEPT ![r] =
                 IF settings_file.telnet_password = ""
                   THEN Return(r, "400 Telnet password not configured")
                   ELSE [req[r] EXCEPT !.pc = "start_clear"]]
    /\ UNCHANGED <<monitor_lock, monitor_thread, monitor_stop_event, monitor_state,
                   settings_file, logs, now, loop>>
    /\ UNCHANGED beside_run

\* lines 472-474: monitor_stop_event.clear(); with monitor_lock
StartClear(r) ==
    /\ req[r].pc = "start_clear"
    /\ monitor_stop_event' = FALSE
    /\ Acquire(r)
    /\ req' = [req EXCEPT ![r].pc = "start_reset"]
    /\ UNCHANGED <<monitor_thread, monitor_state, settings_file, logs, now, loop>>
    /\ UNCHANGED beside_run

\* lines 475-482: monitor_state = {...}
StartReset(r) ==
    /\ req[r].pc = "start_reset"
    /\ Release(r)
    /\ monitor_state' = FreshState(now)
    /\ req' = [req EXCEPT ![r].pc = "start_spawn"]
    /\ UNCHANGED <<monitor_thread, monitor_stop_event, settings_file, logs, now, loop>>
    /\ UNCHANGED beside_run

\* lines 484-487: monitor_thread = Thread(target=monitor_loop); start(); return 200
StartSpawn(r) ==
    /\ req[r].pc = "start_spawn"
    /\ \E l \in Loops :
         /\ loop[l].pc = "unborn"
         /\ \A k \in Loops : k < l => loop[k].pc # "unborn"
         /\ loop' = [loop EXCEPT ![l].pc = "load", ![l].starter = r]
         /\ monitor_thread' = l
    /\ req' = [req EXCEPT ![r] = Return(r, "200")]
    /\ UNCHANGED <<monitor_lock, monitor_stop_event, monitor_state, settings_file, logs, now>>
    /\ UNCHANGED beside_run

\* ------------------------------------------------- POST /api/stop

\* line 492: with monitor_lock
StopEnter(r) ==
    /\ Arrives(r)
    /\ Acquire(r)
    /\ req' = [req EXCEPT ![r] = [op |-> "stop", pc |-> "stop_check", name |-> NoLog, resp |-> "none"]]
    /\ UNCHANGED <<monitor_thread, monitor_stop_event, monitor_state, settings_file, logs, now, loop>>
    /\ UNCHANGED beside_run

\* lines 493-494: if not monitor_state["running"]: return
StopCheck(r) ==
    /\ req[r].pc = "stop_check"
    /\ Release(r)
    /\ req' = [req EXCEPT ![r] =
                 IF ~monitor_state.running
                   THEN Return(r, "200 Not running")
                   ELSE [req[r] EXCEPT !.pc = "stop_set"]]
    /\ UNCHANGED <<monitor_thread, monitor_stop_event, monitor_state, settings_file, logs, now, loop>>
    /\ UNCHANGED beside_run

\* lines 496-501: monitor_stop_event.set() sets the flag and notifies every
\* thread inside monitor_stop_event.wait(), whose wait() will return True;
\* join(timeout=10) waits for the thread or for the timeout and changes nothing
StopSet(r) ==
    /\ req[r].pc = "stop_set"
    /\ monitor_stop_event' = TRUE
    /\ loop' = [l \in Loops |->
                  IF loop[l].pc = "waiting" THEN [loop[l] EXCEPT !.notified = TRUE] ELSE loop[l]]
    /\ req' = [req EXCEPT ![r] = Return(r, "200")]
    /\ UNCHANGED <<monitor_lock, monitor_thread, monitor_state, settings_file, logs, now>>
    /\ UNCHANGED beside_run

\* ------------------------------------------------- DELETE /api/logs/<name>

\* lines 630-635: 404 unless the file exists; with monitor_lock
DeleteEnter(r, name) ==
    /\ Arrives(r)
    /\ IF name \notin DOMAIN logs
         THEN /\ req' = [req EXCEPT ![r] =
                           [op |-> "delete", pc |-> "returned", name |-> NoLog, resp |-> "404"]]
              /\ UNCHANGED monitor_lock
         ELSE /\ req' = [req EXCEPT ![r] =
                           [op |-> "delete", pc |-> "delete_check", name |-> name, resp |-> "none"]]
              /\ Acquire(r)
    /\ UNCHANGED <<monitor_thread, monitor_stop_event, monitor_state, settings_file, logs, now, loop>>
    /\ UNCHANGED beside_run

\* lines 636-637: the active log is not deleted
DeleteCheck(r) ==
    /\ req[r].pc = "delete_check"
    /\ Release(r)
    /\ req' = [req EXCEPT ![r] =
                 IF monitor_state.current_log = req[r].name /\ monitor_state.running
                   THEN Return(r, "400 Cannot delete the active log file")
                   ELSE [req[r] EXCEPT !.pc = "delete_unlink"]]
    /\ UNCHANGED <<monitor_thread, monitor_stop_event, monitor_state, settings_file, logs, now, loop>>
    /\ UNCHANGED beside_run

\* lines 639-640: path.unlink(); FileNotFoundError if the file is gone
DeleteUnlink(r) ==
    /\ req[r].pc = "delete_unlink"
    /\ IF req[r].name \in DOMAIN logs
         THEN /\ logs' = [n \in DOMAIN logs \ {req[r].name} |-> logs[n]]
              /\ req' = [req EXCEPT ![r] = Return(r, "200")]
         ELSE /\ logs' = logs
              /\ req' = [req EXCEPT ![r] = Return(r, "500")]
    /\ UNCHANGED <<monitor_lock, monitor_thread, monitor_stop_event, monitor_state,
                   settings_file, now, loop>>
    /\ UNCHANGED beside_run

\* ------------------------------------------------- POST /api/settings

\* lines 436-453: the posted keys over the current settings
Updated(current, data) ==
    [camera_ip |->
        IF "camera_ip" \in data.keys THEN Strip(data.camera_ip) ELSE current.camera_ip,
     telnet_password |->
        IF "telnet_password" \in data.keys /\ data.telnet_password # ""
          THEN data.telnet_password ELSE current.telnet_password,
     interval |->
        IF "interval" \in data.keys THEN Max(MinInterval, data.interval) ELSE current.interval,
     cockpit_vars |->
        IF "cockpit_vars" \in data.keys THEN data.cockpit_vars ELSE current.cockpit_vars]

\* lines 434-455: load_settings(), update, save_settings()
PostSettings(r) ==
    /\ Arrives(r)
    /\ \E data \in Payloads :
         settings_file' = Updated(settings_file, data)
    /\ req' = [req EXCEPT ![r] = [op |-> "settings", pc |-> "returned", name |-> NoLog, resp |-> "200"]]
    /\ UNCHANGED <<monitor_lock, monitor_thread, monitor_stop_event, monitor_state, logs, now, loop>>
    /\ UNCHANGED beside_run

\* ------------------------------------------------- monitor_loop

\* a step of thread l that changes its own locals and nothing else
Local(l, new) ==
    /\ loop' = [loop EXCEPT ![l] = new]
    /\ UNCHANGED <<monitor_lock, monitor_thread, monitor_stop_event, monitor_state,
                   settings_file, logs, now, req>>
    /\ UNCHANGED beside_run

\* a step of thread l that changes its own locals and ends at `with monitor_lock:`
Locking(l, new) ==
    /\ Acquire(l)
    /\ loop' = [loop EXCEPT ![l] = new]
    /\ UNCHANGED <<monitor_thread, monitor_stop_event, monitor_state, settings_file, logs, now, req>>
    /\ UNCHANGED beside_run

\* the body of a `with monitor_lock:` block of thread l, and its end
Locked(l, from, to, state) ==
    /\ loop[l].pc = from
    /\ Release(l)
    /\ monitor_state' = state
    /\ loop' = [loop EXCEPT ![l].pc = to, ![l].exc = NoError]
    /\ UNCHANGED <<monitor_thread, monitor_stop_event, settings_file, logs, now, req>>
    /\ UNCHANGED beside_run

\* lines 329-333: settings = load_settings() and the locals read from it
LoadSettings(l) ==
    /\ loop[l].pc = "load"
    /\ Local(l, [loop[l] EXCEPT !.pc = "connect",
                                !.settings = settings_file,
                                !.host = settings_file.camera_ip,
                                !.password = settings_file.telnet_password,
                                !.interval = Max(MinInterval, settings_file.interval)])

\* lines 337-340: tn = CameraTelnet(host) connects, or raises OSError and the
\* handler goes to its `with monitor_lock:`
Connect(l) ==
    /\ loop[l].pc = "connect"
    /\ \/ Local(l, [loop[l] EXCEPT !.pc = "login", !.tn = "open"])
       \/ Locking(l, [loop[l] EXCEPT !.pc = "connfail"])

\* lines 341-344
ConnectFailed(l) ==
    Locked(l, "connfail", "done",
           [monitor_state EXCEPT !.running = FALSE, !.error = "Connection failed"])

\* the password tn.login(user, password) sends
LoginPassword(l) == loop[l].password

\* a thread that goes on to its log after login() returned False
LoginFailedIgnored(l) ==
    [loop[l] EXCEPT !.pc = "publish", !.sent_password = LoginPassword(l),
                    !.log_filename = LogName(now)]

\* the thread after login() returned False and after the close() of line 347
LoginFailedClosed(l) ==
    [loop[l] EXCEPT !.pc = "loginfail", !.tn = "closed", !.sent_password = LoginPassword(l)]

\* lines 346-348: tn.login(user, password) returns True, or returns False and
\* tn.close() runs before `with monitor_lock:`, or an OSError of sendall() or
\* recv() (other than socket.timeout) leaves login() and ends the thread
Login(l) ==
    /\ loop[l].pc = "login"
    /\ \/ Local(l, [loop[l] EXCEPT !.pc = "name_log", !.sent_password = LoginPassword(l),
                                    !.login_ret = TRUE])
       \/ Locking(l, LoginFailedClosed(l))
       \/ Local(l, [loop[l] EXCEPT !.pc = "crashed", !.sent_password = LoginPassword(l)])

\* lines 349-352
LoginFailed(l) ==
    Locked(l, "loginfail", "done",
           [monitor_state EXCEPT !.running = FALSE, !.error = "Telnet login failed"])

\* lines 356-360: log_filename from the clock; with monitor_lock
NameLog(l) ==
    /\ loop[l].pc = "name_log"
    /\ Locking(l, [loop[l] EXCEPT !.pc = "publish", !.log_filename = LogName(now)])

\* lines 361-364
Publish(l) ==
    Locked(l, "publish", "open",
           [monitor_state EXCEPT !.error = NoError, !.current_log = loop[l].log_filename])

\* line 367: open(log_path, "w") creates the file or truncates the one of that
\* name; or it raises OSError and the except clause goes to its `with monitor_lock:`
OpenLog(l) ==
    /\ loop[l].pc = "open"
    /\ \/ LET name == loop[l].log_filename
              ino == IF name \in DOMAIN logs THEN logs[name].ino ELSE l
          IN /\ logs' = [n \in DOMAIN logs \cup {name} |->
                           IF n = name THEN [ino |-> ino, lines |-> 0] ELSE logs[n]]
             /\ loop' = [loop EXCEPT ![l].pc = "while", ![l].f = ino]
             /\ UNCHANGED <<monitor_lock, monitor_thread, monitor_stop_event, monitor_state,
                            settings_file, now, req>>
       \/ Locking(l, [loop[l] EXCEPT !.pc = "except", !.exc = "open failed"])
    /\ UNCHANGED beside_run

\* line 368: while not monitor_stop_event.is_set(); leaving the loop leaves
\* the `with open` block, which closes f
While(l) ==
    /\ loop[l].pc = "while"
    /\ LET awake == [loop[l] EXCEPT !.notified = FALSE, !.wait_ret = FALSE, !.sleep_time = 0]
       IN Local(l, IF monitor_stop_event
                     THEN [awake EXCEPT !.pc = "finally_close", !.f = NoFile]
                     ELSE [awake EXCEPT !.pc = "snapshot"])

\* a fetch_isp_info called with the address of the settings as they are now
FetchHostReloaded(l) == settings_file.camera_ip

\* the address fetch_isp_info(host) is called with
FetchHost(l) == loop[l].host

\* lines 369-375: snapshot(tn), fetch_isp_info(host), compute_cpu_percent; or
\* a sendall() raises, which closes f on the way to the except clause
Snapshot(l) ==
    /\ loop[l].pc = "snapshot"
    /\ \/ /\ loop[l].ticks < MaxTicks
          /\ Local(l, [loop[l] EXCEPT !.pc = "write",
                                      !.ticks = @ + 1,
                                      !.snap = [ts |-> now, n |-> loop[l].ticks + 1],
                                      !.prev_snap = NoSnap,
                                      !.fetch_host = FetchHost(l)])
       \/ Locking(l, [loop[l] EXCEPT !.pc = "except", !.f = NoFile, !.exc = "snapshot failed"])

\* lines 377-378: f.write(json.dumps(snap) + "\n"); f.flush() appends to the
\* file f was opened on, which may no longer be the one the name leads to
Write(l) ==
    /\ loop[l].pc = "write"
    /\ LET n == loop[l].log_filename
       IN logs' = IF n \in DOMAIN logs /\ logs[n].ino = loop[l].f
                    THEN [logs EXCEPT ![n].lines = @ + 1]
                    ELSE logs
    /\ loop' = [loop EXCEPT ![l].pc = "broadcast", ![l].fetch_host = ""]
    /\ UNCHANGED <<monitor_lock, monitor_thread, monitor_stop_event, monitor_state,
                   settings_file, now, req>>
    /\ UNCHANGED beside_run

\* the settings ws_broadcast selects the fields by (lines 85-86)
BroadcastSettings(l) == settings_file

\* lines 380-382: ws_broadcast(snap); with monitor_lock
Broadcast(l) ==
    /\ loop[l].pc = "broadcast"
    /\ Locking(l, [loop[l] EXCEPT !.pc = "count",
                                  !.selected = BroadcastSettings(l).cockpit_vars])

\* a count block that does not end before the sleep
CountHoldingLock(l) ==
    /\ loop[l].pc = "count"
    /\ monitor_lock = l
    /\ monitor_state' = [monitor_state EXCEPT !.samples = @ + 1, !.last_sample = loop[l].snap]
    /\ loop' = [loop EXCEPT ![l].pc = "sleep"]
    /\ UNCHANGED <<monitor_lock, monitor_thread, monitor_stop_event, settings_file, logs, now, req>>
    /\ UNCHANGED beside_run

\* lines 383-384
Count(l) ==
    Locked(l, "count", "sleep",
           [monitor_state EXCEPT !.samples = @ + 1, !.last_sample = loop[l].snap])

\* the interval the sleep is computed from
SleepInterval(l) == loop[l].interval

\* lines 386-390: prev_snap = snap; sleep_time = max(0, interval - elapsed);
\* monitor_stop_event.wait(sleep_time) returns True at once if the flag is set
Sleep(l) ==
    /\ loop[l].pc = "sleep"
    /\ LET elapsed == (now - loop[l].snap.ts) * HalfSecondsPerSecond
           sleep_time == Max(0, SleepInterval(l) - elapsed)
           slept == [loop[l] EXCEPT !.prev_snap = loop[l].snap, !.snap = NoSnap,
                                    !.selected = <<>>, !.sleep_time = sleep_time]
       IN Local(l, IF sleep_time > 0
                     THEN IF monitor_stop_event
                            THEN [slept EXCEPT !.pc = "while", !.wait_ret = TRUE]
                            ELSE [slept EXCEPT !.pc = "waiting", !.wait_ret = FALSE]
                     ELSE [slept EXCEPT !.pc = "while", !.wait_ret = FALSE])

\* line 390: wait() returns True if set() notified it, False on the timeout
Wake(l) ==
    /\ loop[l].pc = "waiting"
    /\ Local(l, [loop[l] EXCEPT !.pc = "while", !.wait_ret = loop[l].notified])

\* lines 392-395
Except(l) ==
    Locked(l, "except", "finally_close", [monitor_state EXCEPT !.error = loop[l].exc])

\* a finally clause without the close() of line 397
FinallyNotClosed(l) == [loop[l] EXCEPT !.pc = "finally"]

\* the thread after the close() of line 397
FinallyClosed(l) == [loop[l] EXCEPT !.pc = "finally", !.tn = "closed"]

\* lines 396-398: tn.close(); with monitor_lock
FinallyClose(l) ==
    /\ loop[l].pc = "finally_close"
    /\ Locking(l, FinallyClosed(l))

\* lines 399-400
Finally(l) ==
    Locked(l, "finally", "done", [monitor_state EXCEPT !.running = FALSE])

\* ------------------------------------------------- the program

\* time passes
Tick ==
    /\ now < MaxClock
    /\ now' = now + 1
    /\ UNCHANGED <<monitor_lock, monitor_thread, monitor_stop_event, monitor_state,
                   settings_file, logs, req, loop>>
    /\ UNCHANGED beside_run

RequestStep(r) ==
    \/ StartEnter(r) \/ StartCheck(r) \/ StartLoad(r) \/ StartClear(r)
    \/ StartReset(r) \/ StartSpawn(r)
    \/ StopEnter(r) \/ StopCheck(r) \/ StopSet(r)
    \/ (\E name \in LogNames : DeleteEnter(r, name))
    \/ DeleteCheck(r) \/ DeleteUnlink(r)
    \/ PostSettings(r)

LoopStep(l) ==
    \/ LoadSettings(l) \/ Connect(l) \/ ConnectFailed(l)
    \/ Login(l) \/ LoginFailed(l)
    \/ NameLog(l) \/ Publish(l) \/ OpenLog(l)
    \/ While(l) \/ Snapshot(l) \/ Write(l) \/ Broadcast(l) \/ Count(l)
    \/ Sleep(l) \/ Wake(l)
    \/ Except(l) \/ FinallyClose(l) \/ Finally(l)

Next ==
    \/ Tick
    \/ \E r \in Reqs : RequestStep(r)
    \/ \E l \in Loops : LoopStep(l)

Spec == Init /\ [][Next]_vars

\* ------------------------------------------------- dicts and rounding

\* a dict is a function from its keys; d.get(k, default)
Get(d, k, default) == IF k \in DOMAIN d THEN d[k] ELSE default

\* d[k] = v
Put(d, k, v) == [j \in DOMAIN d \cup {k} |-> IF j = k THEN v ELSE d[j]]

\* round(num / den, 1) for den > 0, in tenths: the tenth nearest to the
\* quotient, the even one of two equally near
Round1(num, den) ==
    LET q == (10 * num) \div den
        r == (10 * num) % den
    IN IF 2 * r > den \/ (2 * r = den /\ q % 2 = 1) THEN q + 1 ELSE q

\* ------------------------------------------------- the Cockpit WebSocket fan-out

\* the memory readings a snapshot can carry: a field is present or not
MemReadings ==
    { [total |-> t, free |-> f] : t \in {{}, {0}, {3}}, f \in {{}, {1}} }

\* the snapshots handed to ws_broadcast: percentages are in tenths
WsSnap(m) ==
    [k \in {"temp_c"} \cup (IF m.total # {} THEN {"mem_memtotal_kb"} ELSE {})
                       \cup (IF m.free # {} THEN {"mem_memfree_kb"} ELSE {}) |->
       CASE k = "temp_c" -> 45
         [] k = "mem_memtotal_kb" -> CHOOSE v \in m.total : TRUE
         [] k = "mem_memfree_kb" -> CHOOSE v \in m.free : TRUE]

WsSnaps == { WsSnap(m) : m \in MemReadings }

\* the cockpit_vars the settings can hold
WsSelections ==
    { << >>, <<"temp_c", "core_volt">>, <<"mem_used_percent">>, <<"temp_c", "mem_used_percent">> }

\* "radcam-" + key.replace("_", "-")
WsKey(key) ==
    CASE key = "temp_c" -> "radcam-temp-c"
      [] key = "core_volt" -> "radcam-core-volt"
      [] key = "mem_used_percent" -> "radcam-mem-used-percent"
      [] key = "mem_memtotal_kb" -> "radcam-mem-memtotal-kb"
      [] key = "mem_memfree_kb" -> "radcam-mem-memfree-kb"

\* lines 90-95: the enriched copy of the snapshot
Enriched(snap) ==
    IF "mem_used_percent" \in DOMAIN snap
      THEN snap
      ELSE LET total == Get(snap, "mem_memtotal_kb", 0)
               free == Get(snap, "mem_memfree_kb", 0)
           IN IF total > 0
                THEN Put(snap, "mem_used_percent", Round1(100 * (total - free), total))
                ELSE snap

RECURSIVE WsMessages(_, _)
\* lines 97-102: one message per selected key the enriched snapshot has, in
\* the order of the selection
WsMessages(enriched, selected) ==
    IF selected = << >>
      THEN << >>
      ELSE LET key == Head(selected)
               rest == WsMessages(enriched, Tail(selected))
           IN IF key \in DOMAIN enriched
                THEN <<[key |-> WsKey(key), val |-> enriched[key]]>> \o rest
                ELSE rest

\* lines 80-117: ws_broadcast(snap) returns at once without clients, without
\* a selection or without messages; else it schedules _send() on the asyncio
\* loop and returns. ws_tasks keeps the argument of every call.
WsBroadcast ==
    /\ ws_calls < MaxBroadcasts
    /\ ws_calls' = ws_calls + 1
    /\ \E snap \in WsSnaps :
         LET selected == settings_file.cockpit_vars
             messages == WsMessages(Enriched(snap), selected)
         IN ws_tasks' =
              [ws_tasks EXCEPT ![ws_calls + 1] =
                 IF ws_clients = {} \/ selected = << >> \/ messages = << >>
                   THEN [NoTask EXCEPT !.pc = "returned", !.snap = snap]
                   ELSE [NoTask EXCEPT !.pc = "queued", !.snap = snap, !.messages = messages]]
    /\ UNCHANGED <<ws_clients, ws_conn, ws_recv>>
    /\ UNCHANGED <<run_vars, sample_vars, read_vars>>

\* line 115: ws_clients.difference_update(dead), the end of _send
DifferenceUpdate(task) == ws_clients \ task.dead

\* lines 108-109: dead = set(); the for loop takes ws_clients.copy(); with
\* no client in the copy _send ends at once
SendStart(t) ==
    /\ ws_tasks[t].pc = "queued"
    /\ IF ws_clients = {}
         THEN ws_tasks' = [ws_tasks EXCEPT ![t].pc = "done"]
         ELSE ws_tasks' = [ws_tasks EXCEPT ![t].pc = "sending",
                                           ![t].copy = ws_clients,
                                           ![t].rest = ws_clients]
    /\ UNCHANGED <<ws_clients, ws_conn, ws_recv, ws_calls>>
    /\ UNCHANGED <<run_vars, sample_vars, read_vars>>

\* the task after client.send(msg) to client c returned: the next message, or
\* the next client
SendReturned(task, c) ==
    IF task.msg + 1 < Len(task.messages)
      THEN [task EXCEPT !.client = c, !.rest = @ \ {c}, !.msg = @ + 1]
      ELSE [task EXCEPT !.client = NoClient, !.rest = @ \ {c}, !.msg = 0]

\* a _send without the try of lines 110-114: the exception ends the coroutine
SendRaisedUncaught(task, c) ==
    [task EXCEPT !.client = NoClient, !.rest = {}, !.msg = 0]

\* lines 113-114: client.send(msg) to client c raised: dead.add(client), and
\* the for loop goes to the next client
SendRaised(task, c) ==
    [task EXCEPT !.client = NoClient, !.rest = @ \ {c}, !.msg = 0, !.dead = @ \cup {c}]

\* lines 109-115: one `await client.send(msg)` of task t, to the client it
\* is at or to the next of the copy: the peer receives the message, or the
\* send raises because the connection is closed; after the last client
\* difference_update runs before the coroutine can be interleaved again
Send(t) ==
    /\ ws_tasks[t].pc = "sending"
    /\ \E c \in Clients :
         /\ IF ws_tasks[t].client = NoClient THEN c \in ws_tasks[t].rest ELSE c = ws_tasks[t].client
         /\ LET task == ws_tasks[t]
                sent == ws_conn[c] = "open"
                after == IF sent THEN SendReturned(task, c) ELSE SendRaised(task, c)
                ends == after.client = NoClient /\ after.rest = {}
            IN /\ ws_recv' = IF sent
                               THEN [ws_recv EXCEPT ![c] =
                                       Append(@, [sample |-> t, text |-> task.messages[task.msg + 1]])]
                               ELSE ws_recv
               /\ ws_tasks' = [ws_tasks EXCEPT ![t] = IF ends THEN [after EXCEPT !.pc = "done"] ELSE after]
               /\ ws_clients' = IF ends THEN DifferenceUpdate(after) ELSE ws_clients
    /\ UNCHANGED <<ws_conn, ws_calls>>
    /\ UNCHANGED <<run_vars, sample_vars, read_vars>>

\* lines 65-70: ws_handler(websocket) adds the websocket to ws_clients (its
\* greeting "radcam-connection-status=connected" is no sample message and is
\* not kept in ws_recv)
WsConnect(c) ==
    /\ ws_conn[c] = "new"
    /\ \A b \in Clients : b < c => ws_conn[b] # "new"
    /\ ws_conn' = [ws_conn EXCEPT ![c] = "open"]
    /\ ws_clients' = ws_clients \cup {c}
    /\ UNCHANGED <<ws_recv, ws_calls, ws_tasks>>
    /\ UNCHANGED <<run_vars, sample_vars, read_vars>>

\* the peer closes the connection (or the network drops it): every later
\* send() to the websocket raises ConnectionClosed
WsPeerClose(c) ==
    /\ ws_conn[c] = "open"
    /\ ws_conn' = [ws_conn EXCEPT ![c] = "closed"]
    /\ UNCHANGED <<ws_clients, ws_recv, ws_calls, ws_tasks>>
    /\ UNCHANGED <<run_vars, sample_vars, read_vars>>

\* lines 71-77: `async for` ends on the closed connection; finally:
\* ws_clients.discard(websocket)
WsHandlerExit(c) ==
    /\ ws_conn[c] = "closed"
    /\ ws_conn' = [ws_conn EXCEPT ![c] = "gone"]
    /\ ws_clients' = ws_clients \ {c}
    /\ UNCHANGED <<ws_recv, ws_calls, ws_tasks>>
    /\ UNCHANGED <<run_vars, sample_vars, read_vars>>

\* what load_settings() can return when ws_broadcast calls it
WsSettings == { [DEFAULT_SETTINGS EXCEPT !.cockpit_vars = sel] : sel \in WsSelections }

WsInit ==
    /\ MonitorIdle
    /\ settings_file \in WsSettings
    /\ WsIdle
    /\ SampleIdle
    /\ ReadIdle

WsNext ==
    \/ WsBroadcast
    \/ \E t \in Tasks : SendStart(t) \/ Send(t)
    \/ \E c \in Clients : WsConnect(c) \/ WsPeerClose(c) \/ WsHandlerExit(c)

WsSpec == WsInit /\ [][WsNext]_vars

\* ------------------------------------------------- the sampling loop in detail

\* the monitor_loop thread of the run
Sampler == 1

\* d.update(e)
Update(d, e) == [k \in DOMAIN d \cup DOMAIN e |-> IF k \in DOMAIN e THEN e[k] ELSE d[k]]

RECURSIVE Sum(_)
\* sum(vals)
Sum(vals) == IF vals = << >> THEN 0 ELSE Head(vals) + Sum(Tail(vals))

\* lines 215-224: parse_stat of an output without a "cpu " line ({}) or with
\* the cpu line of the numbers vals ({vals})
ParseStat(out) ==
    IF out = {}
      THEN << >>
      ELSE LET vals == CHOOSE v \in out : TRUE
               total == IF Len(vals) >= 8 THEN Sum(SubSeq(vals, 1, 8)) ELSE Sum(vals)
               idle == vals[4] + (IF Len(vals) > 4 THEN vals[5] ELSE 0)
           IN [cpu_total |-> total, cpu_busy |-> total - idle]

\* lines 227-239: parse_meminfo of an output with or without its lines
ParseMeminfo(m) ==
    [k \in (IF m.total # {} THEN {"mem_memtotal_kb"} ELSE {})
         \cup (IF m.free # {} THEN {"mem_memfree_kb"} ELSE {}) |->
       IF k = "mem_memtotal_kb" THEN CHOOSE v \in m.total : TRUE ELSE CHOOSE v \in m.free : TRUE]

\* the /proc/stat counters a moment later: user has grown or not; iowait has
\* stayed or has gone down (the kernel does not keep it monotonic)
Advances(counters) ==
    { [counters EXCEPT ![1] = @ + du, ![5] = @ - dw] :
        du \in {0, 2}, dw \in {w \in {0, 1} : w <= counters[5]} }

\* the meminfo output of the sampling loop
SampleMems == { [total |-> {3}, free |-> {1}] }

\* lines 242-258: snapshot(tn) at time ts from the three command outputs
SnapshotOf(ts, stat, mem) ==
    Update(Update(Update([ts |-> ts], [temp_c |-> 45]), ParseStat(stat)), ParseMeminfo(mem))

\* what the camera's HTTP API can do with GET /action/getISPInfo
IspResponses == {"unreachable", "timeout", "http_error", "not_json", "not_object", "no_isp_info", "ok"}

\* lines 263-287: fetch_isp_info(host). urlopen and json.loads are inside the
\* try, and every exception there gives {}; data.get("isp_info", "") is
\* after it, and raises AttributeError when the JSON document is no object
FetchIspInfo(response) ==
    CASE response \in {"unreachable", "timeout", "http_error", "not_json"} ->
           [raised |-> FALSE, result |-> << >>]
      [] response = "not_object" -> [raised |-> TRUE, result |-> << >>]
      [] response = "no_isp_info" -> [raised |-> FALSE, result |-> << >>]
      [] response = "ok" -> [raised |-> FALSE, result |-> [isp_iso |-> 100]]

\* lines 316-322: compute_cpu_percent(prev, curr): None ({}) or the rounded
\* percentage in tenths ({p})
ComputeCpuPercent(prev, curr) ==
    LET dt == Get(curr, "cpu_total", 0) - Get(prev, "cpu_total", 0)
        db == Get(curr, "cpu_busy", 0) - Get(prev, "cpu_busy", 0)
    IN IF dt <= 0 THEN {} ELSE {Round1(100 * db, dt)}

\* what no step of the sampling loop changes
sampler_frame ==
    <<monitor_thread, monitor_stop_event, settings_file, now, req, loop, ws_vars, read_vars>>

\* what no step of a get_status request changes
status_frame ==
    <<monitor_thread, monitor_stop_event, monitor_state, settings_file, logs, now, loop,
      ws_vars, sample_vars, read_vars>>

\* a step of the sampler that changes its locals and nothing of RunState
SampleLocal(new) ==
    /\ sampler' = new
    /\ UNCHANGED <<monitor_lock, monitor_state>>
    /\ UNCHANGED sampler_frame

\* a step of the sampler that ends at `with monitor_lock:`
SampleLocking(new) ==
    /\ Acquire(Sampler)
    /\ sampler' = new
    /\ UNCHANGED monitor_state
    /\ UNCHANGED sampler_frame

\* the body of a `with monitor_lock:` block of the sampler, and its end
SampleLocked(from, to, state) ==
    /\ sampler.pc = from
    /\ Release(Sampler)
    /\ monitor_state' = state
    /\ sampler' = [sampler EXCEPT !.pc = to, !.exc = NoError]
    /\ UNCHANGED <<heap, device, log_lines, logs>>
    /\ UNCHANGED sampler_frame

\* line 368: while not monitor_stop_event.is_set()
SampleWhile ==
    /\ sampler.pc = "while"
    /\ SampleLocal([sampler EXCEPT !.pc = IF monitor_stop_event THEN "finally_close" ELSE "snapshot"])
    /\ UNCHANGED <<heap, device, log_lines, logs>>

\* line 369: snap = snapshot(tn) is a new dict; or a sendall() raises
SampleSnapshot ==
    /\ sampler.pc = "snapshot"
    /\ \/ /\ sampler.ticks < MaxTicks
          /\ \E next \in Advances(device), stat \in {"cpu line", "no cpu line"}, mem \in SampleMems :
               LET id == sampler.ticks + 1
                   out == IF stat = "cpu line" THEN {next} ELSE {}
                   snap == SnapshotOf(id, out, mem)
               IN /\ device' = next
                  /\ heap' = [o \in DOMAIN heap \cup {id} |-> IF o = id THEN snap ELSE heap[o]]
                  /\ SampleLocal([sampler EXCEPT !.pc = "fetch", !.snap = id, !.ticks = id])
       \/ /\ SampleLocking([sampler EXCEPT !.pc = "except", !.exc = "snapshot failed"])
          /\ UNCHANGED <<heap, device>>
    /\ UNCHANGED <<log_lines, logs>>

\* line 370: snap.update(fetch_isp_info(host))
SampleFetch ==
    /\ sampler.pc = "fetch"
    /\ \E response \in IspResponses :
         LET isp == FetchIspInfo(response)
         IN IF isp.raised
              THEN /\ SampleLocking([sampler EXCEPT !.pc = "except", !.exc = "fetch failed"])
                   /\ UNCHANGED heap
              ELSE /\ heap' = [heap EXCEPT ![sampler.snap] = Update(@, isp.result)]
                   /\ SampleLocal([sampler EXCEPT !.pc = "cpu"])
    /\ UNCHANGED <<device, log_lines, logs>>

\* lines 372-375: snap["cpu_percent"] when there is a previous sample and
\* compute_cpu_percent gives a value
SampleCpu ==
    /\ sampler.pc = "cpu"
    /\ LET cpu_pct == IF sampler.prev_snap = NoObject
                        THEN {}
                        ELSE ComputeCpuPercent(heap[sampler.prev_snap], heap[sampler.snap])
       IN heap' = IF cpu_pct = {}
                    THEN heap
                    ELSE [heap EXCEPT ![sampler.snap] =
                            Put(@, "cpu_percent", CHOOSE p \in cpu_pct : TRUE)]
    /\ SampleLocal([sampler EXCEPT !.pc = "write"])
    /\ UNCHANGED <<device, log_lines, logs>>

\* lines 377-378: f.write(json.dumps(snap) + "\n"); f.flush()
SampleWrite ==
    /\ sampler.pc = "write"
    /\ log_lines' = Append(log_lines, heap[sampler.snap])
    /\ logs' = [logs EXCEPT ![monitor_state.current_log].lines = @ + 1]
    /\ SampleLocal([sampler EXCEPT !.pc = "broadcast"])
    /\ UNCHANGED <<heap, device>>

\* lines 380-382: ws_broadcast(snap) works on a copy of snap; with monitor_lock
SampleBroadcast ==
    /\ sampler.pc = "broadcast"
    /\ SampleLocking([sampler EXCEPT !.pc = "count"])
    /\ UNCHANGED <<heap, device, log_lines, logs>>

\* a count that leaves last_sample as it was
AttachedCountOnly(state, snap) == [state EXCEPT !.samples = @ + 1]

\* lines 383-384: RunState after samples += 1; last_sample = snap
Attached(state, snap) == [state EXCEPT !.samples = @ + 1, !.last_sample = snap]

\* lines 383-384
SampleCount ==
    SampleLocked("count", "sleep", Attached(monitor_state, sampler.snap))

\* lines 386-391: prev_snap = snap; the wait ends by the timeout or by the
\* stop event
SampleSleep ==
    /\ sampler.pc = "sleep"
    /\ SampleLocal([sampler EXCEPT !.pc = "while", !.prev_snap = sampler.snap, !.snap = NoObject])
    /\ UNCHANGED <<heap, device, log_lines, logs>>

\* lines 392-395
SampleExcept ==
    SampleLocked("except", "finally_close", [monitor_state EXCEPT !.error = sampler.exc])

\* lines 396-398: tn.close(); with monitor_lock
SampleFinallyClose ==
    /\ sampler.pc = "finally_close"
    /\ SampleLocking([sampler EXCEPT !.pc = "finally"])
    /\ UNCHANGED <<heap, device, log_lines, logs>>

\* lines 399-400
SampleFinally ==
    SampleLocked("finally", "done", [monitor_state EXCEPT !.running = FALSE])

\* line 506: with monitor_lock
StatusEnter(r) ==
    /\ Arrives(r)
    /\ Acquire(r)
    /\ req' = [req EXCEPT ![r] = [op |-> "status", pc |-> "status_copy", name |-> NoLog, resp |-> "none"]]
    /\ UNCHANGED status_frame

\* lines 507-509: state = dict(monitor_state) with a copy of last_sample
\* (None is the empty dict here)
StatusCopy(r) ==
    /\ req[r].pc = "status_copy"
    /\ Release(r)
    /\ req' = [req EXCEPT ![r].pc = "status_return",
                           ![r].resp = [monitor_state EXCEPT !.last_sample =
                                          IF @ = NoObject THEN << >> ELSE heap[@]]]
    /\ UNCHANGED status_frame

\* line 510: return jsonify(state)
StatusReturn(r) ==
    /\ req[r].pc = "status_return"
    /\ req' = [req EXCEPT ![r] = Return(r, "200")]
    /\ UNCHANGED monitor_lock
    /\ UNCHANGED status_frame

\* a step of the sampling loop
SamplerStep ==
    \/ SampleWhile \/ SampleSnapshot \/ SampleFetch \/ SampleCpu \/ SampleWrite
    \/ SampleBroadcast \/ SampleCount \/ SampleSleep
    \/ SampleExcept \/ SampleFinallyClose \/ SampleFinally

\* a step of a get_status request
StatusStep(r) == StatusEnter(r) \/ StatusCopy(r) \/ StatusReturn(r)

\* a step of a stop_monitor request
StopStep(r) == StopEnter(r) \/ StopCheck(r) \/ StopSet(r)

\* the first run after line 367: logged in, its log published and opened
SampleInit ==
    /\ monitor_lock = NoThread
    /\ monitor_thread = Sampler
    /\ monitor_stop_event = FALSE
    /\ monitor_state = [FreshState(0) EXCEPT !.last_sample = NoObject, !.current_log = LogName(0)]
    /\ settings_file = [DEFAULT_SETTINGS EXCEPT !.telnet_password = "secret"]
    /\ logs = [n \in {LogName(0)} |-> [ino |-> Sampler, lines |-> 0]]
    /\ now = 0
    /\ req = [r \in Reqs |-> [op |-> "none", pc |-> "idle", name |-> NoLog, resp |-> "none"]]
    /\ loop = [l \in Loops |->
                 IF l = Sampler
                   THEN [NewLoop EXCEPT !.pc = "while", !.settings = settings_file,
                                        !.host = settings_file.camera_ip,
                                        !.password = settings_file.telnet_password,
                                        !.interval = settings_file.interval,
                                        !.tn = "open", !.log_filename = LogName(0),
                                        !.f = Sampler, !.sent_password = settings_file.telnet_password,
                                        !.login_ret = TRUE]
                   ELSE NewLoop]
    /\ WsIdle
    /\ sampler = [pc |-> "while", snap |-> NoObject, prev_snap |-> NoObject,
                  ticks |-> 0, exc |-> NoError]
    /\ heap = << >>
    /\ device = BootCounters
    /\ log_lines = << >>
    /\ ReadIdle

SampleNext ==
    \/ SamplerStep
    \/ \E r \in Reqs : StatusStep(r) \/ StopStep(r)

SampleSpec == SampleInit /\ [][SampleNext]_vars

\* ------------------------------------------------- the log readers

\* the records a log line can decode to: "ts" is always there, every other
\* field is there or not; percentages are in tenths
RawRecords ==
    { [ts |-> {0}, cpu_total |-> t, cpu_busy |-> b, cpu_percent |-> p,
       mem_memtotal_kb |-> m.total, mem_memfree_kb |-> m.free] :
        t \in {{}, {1}, {3}}, b \in {{}, {1}}, p \in {{}, {250}},
        m \in {[total |-> {}, free |-> {}], [total |-> {3}, free |-> {}],
               [total |-> {0}, free |-> {1}], [total |-> {3}, free |-> {1}]} }

\* the dict json.loads() makes of a record: the keys that are there
Loaded(raw) == [k \in {j \in DOMAIN raw : raw[j] # {}} |-> CHOOSE v \in raw[k] : TRUE]

\* a line of a log file: blank, not decodable, or the JSON of a record
Lines ==
    {[kind |-> "blank", rec |-> NoRecord], [kind |-> "garbage", rec |-> NoRecord]}
      \cup { [kind |-> "json", rec |-> Loaded(raw)] : raw \in RawRecords }

\* the files of at most MaxLines lines
Files == UNION { [1..n -> Lines] : n \in 0..MaxLines }

\* the line json.dumps() makes of a record
Dumped(rec) == [kind |-> "json", rec |-> rec]

\* the lines of a file that holds the records of a response, one per line
DumpedAll(records) == [i \in 1..Len(records) |-> Dumped(records[i])]

\* lines 555-557 and 598-600: the lines that are not blank
NotBlank(line) == line.kind # "blank"

\* line 602: lines[-limit:] for limit >= 0; lines[-0:] is every line
Window(lines, limit) ==
    IF limit = 0 \/ limit >= Len(lines)
      THEN lines
      ELSE SubSeq(lines, Len(lines) - limit + 1, Len(lines))

\* line 593: request.args.get("limit", 120, type=int)
DefaultLimit == 120

\* the limits a client asks for
Limits == {0, 1, DefaultLimit}

\* a derivation that leaves in cpu_busy of a record its difference to the
\* record before
DerivedKeepingDelta(prev, rec) ==
    IF prev # {} /\ "cpu_busy" \in DOMAIN rec
      THEN LET before == CHOOSE x \in prev : TRUE
           IN Put(rec, "cpu_busy", rec.cpu_busy - Get(before, "cpu_busy", 0))
      ELSE rec

\* lines 563-571 and 612-620: the record after the derivation; prev is {} for
\* None
Derived(prev, rec) ==
    LET cpu_pct == IF prev # {} /\ "cpu_percent" \notin DOMAIN rec
                     THEN ComputeCpuPercent(CHOOSE x \in prev : TRUE, rec)
                     ELSE {}
        filled == IF cpu_pct # {}
                    THEN Put(rec, "cpu_percent", CHOOSE v \in cpu_pct : TRUE)
                    ELSE rec
    IN IF "mem_memtotal_kb" \in DOMAIN filled /\ "mem_memfree_kb" \in DOMAIN filled
         THEN LET total == filled.mem_memtotal_kb
                  free == filled.mem_memfree_kb
              IN Put(filled, "mem_used_percent",
                     IF total > 0 THEN Round1(100 * (total - free), total) ELSE 0)
         ELSE filled

\* a handler begins to read: its locals as they are before the loop
Reading(handler, limit, lines) ==
    [reader EXCEPT !.pc = "loop", !.handler = handler, !.limit = limit, !.input = lines,
                   !.lines = lines, !.prev = {}, !.records = << >>, !.resp = "none"]

\* a handler returns records
Responded(r, records) ==
    [r EXCEPT !.pc = "returned", !.lines = << >>, !.prev = {}, !.records = << >>,
              !.resp = "200",
              !.calls = Append(@, [handler |-> r.handler, limit |-> r.limit,
                                   input |-> r.input, output |-> records])]

\* a request may come in
MayRead == reader.pc \in {"idle", "returned"} /\ Len(reader.calls) < MaxCalls

\* lines 545-553: log_data(name): 404 without the file, else records = [],
\* prev = None and the file opened; a blank line is skipped by the loop
LogData ==
    /\ MayRead
    /\ reader' = IF reader.file = {}
                   THEN [reader EXCEPT !.pc = "returned", !.handler = "log_data", !.resp = "404"]
                   ELSE Reading("log_data", 0, SelectSeq(CHOOSE f \in reader.file : TRUE, NotBlank))
    /\ UNCHANGED <<run_vars, ws_vars, sample_vars>>

\* lines 580-605: live_data(): current_log and running read inside one
\* `with monitor_lock:` block, [] without a run or without its file, else the
\* last `limit` lines that are not blank
LiveData(limit) ==
    /\ MayRead
    /\ monitor_lock = NoThread
    /\ reader' = IF monitor_state.current_log = NoLog \/ ~monitor_state.running
                      \/ reader.file = {}
                   THEN Responded([reader EXCEPT !.handler = "live_data", !.limit = limit,
                                                 !.input = << >>], << >>)
                   ELSE Reading("live_data", limit,
                                Window(SelectSeq(CHOOSE f \in reader.file : TRUE, NotBlank), limit))
    /\ UNCHANGED <<run_vars, ws_vars, sample_vars>>

\* lines 554-574 and 606-623: one pass of the loop: a line json.loads()
\* refuses is skipped, else the record is derived, appended and becomes prev
DeriveLine ==
    /\ reader.pc = "loop"
    /\ reader.lines # << >>
    /\ LET line == Head(reader.lines)
           rec == Derived(reader.prev, line.rec)
       IN reader' = IF line.kind = "garbage"
                      THEN [reader EXCEPT !.lines = Tail(@)]
                      ELSE [reader EXCEPT !.lines = Tail(@), !.prev = {rec},
                                          !.records = Append(@, rec)]
    /\ UNCHANGED <<run_vars, ws_vars, sample_vars>>

\* lines 576 and 625: return jsonify({"records": records})
ReadReturn ==
    /\ reader.pc = "loop"
    /\ reader.lines = << >>
    /\ reader' = Responded(reader, reader.records)
    /\ UNCHANGED <<run_vars, ws_vars, sample_vars>>

\* the records of the last response are stored as the lines of the log file
FeedBack ==
    /\ reader.pc = "returned"
    /\ reader.resp = "200"
    /\ Len(reader.calls) < MaxCalls
    /\ reader' = [reader EXCEPT !.pc = "idle", !.resp = "none",
                                !.file = {DumpedAll(reader.calls[Len(reader.calls)].output)}]
    /\ UNCHANGED <<run_vars, ws_vars, sample_vars>>

\* a log file of any content; no run yet, or a run in its sampling loop that
\* has the file as its log
ReadInit ==
    /\ monitor_lock = NoThread
    /\ monitor_stop_event = FALSE
    /\ settings_file = DEFAULT_SETTINGS
    /\ now = 0
    /\ req = [r \in Reqs |-> [op |-> "none", pc |-> "idle", name |-> NoLog, resp |-> "none"]]
    /\ \E f \in Files :
         /\ reader = [NoReader EXCEPT !.file = {f}]
         /\ logs = [n \in {LogName(0)} |-> [ino |-> Sampler, lines |-> Len(f)]]
         /\ \/ /\ monitor_thread = NoLoop
               /\ monitor_state = [running |-> FALSE, error |-> NoError, samples |-> 0,
                                   start_time |-> -1, last_sample |-> NoSnap,
                                   current_log |-> NoLog]
               /\ loop = [l \in Loops |-> NewLoop]
            \/ /\ monitor_thread = Sampler
               /\ monitor_state = [FreshState(0) EXCEPT !.current_log = LogName(0)]
               /\ loop = [l \in Loops |->
                            IF l = Sampler
                              THEN [NewLoop EXCEPT !.pc = "while", !.settings = settings_file,
                                                   !.host = settings_file.camera_ip,
                                                   !.password = settings_file.telnet_password,
                                                   !.interval = settings_file.interval,
                                                   !.tn = "open", !.log_filename = LogName(0),
                                                   !.f = Sampler, !.login_ret = TRUE]
                              ELSE NewLoop]
    /\ WsIdle
    /\ SampleIdle

ReadNext ==
    \/ LogData
    \/ \E limit \in Limits : LiveData(limit)
    \/ DeriveLine
    \/ ReadReturn
    \/ FeedBack

ReadSpec == ReadInit /\ [][ReadNext]_vars

\* ------------------------------------------------- the claims

\* request r takes a step
Steps(r) == req'[r] # req[r]

\* monitor_loop thread l goes from pc from to pc to
Goes(l, from, to) == loop[l].pc = from /\ loop'[l].pc = to

\* the step of lines 475-482, by which a start request is accepted
StartAccepted == \E r \in Reqs : req[r].pc = "start_reset" /\ req'[r].pc = "start_spawn"

\* C1: at most one monitor_loop thread is alive at any instant, however the
\* start requests interleave.
C1_AtMostOneLoop == Cardinality({l \in Loops : IsAlive(l)}) <= 1

\* C2: a start request that is rejected (a run is active, or no password is
\* configured) mutates nothing: no step of start_monitor up to and including
\* its rejection changes RunState, the stop event, monitor_thread or any
\* monitor_loop thread.
C2_RejectedStartMutatesNothing ==
    [][\A r \in Reqs :
         ( /\ Steps(r)
           /\ req'[r].op = "start"
           /\ req[r].pc \in {"idle", "start_check", "start_load"} )
         => UNCHANGED <<monitor_state, monitor_stop_event, monitor_thread, loop, logs>>]_vars

\* C2 witness: a start request was rejected while a run with samples and a log
\* was active.
C2_Witness ==
    \E r \in Reqs :
      /\ req[r].op = "start"
      /\ req[r].resp = "400 Already monitoring"
      /\ monitor_state.running
      /\ monitor_state.samples > 0
      /\ monitor_state.current_log # NoLog

\* C3: whenever RunState shows a running run with a log id, the log file of
\* that name exists.
C3_NamedLogExists ==
    (monitor_state.running /\ monitor_state.current_log # NoLog)
      => monitor_state.current_log \in DOMAIN logs

\* C4: any two distinct runs that have named their log have different log names.
C4_UniqueLogNames ==
    \A k, l \in Loops :
      (k # l /\ loop[k].log_filename # NoLog /\ loop[l].log_filename # NoLog)
        => loop[k].log_filename # loop[l].log_filename

\* C5: delete_log never unlinks a file that a monitor_loop thread has open for
\* writing.
C5_ActiveLogNotDeleted ==
    [][\A r \in Reqs :
         (req[r].pc = "delete_unlink" /\ Steps(r))
         => ~ \E l \in Loops :
                /\ loop[l].f # NoFile
                /\ loop[l].log_filename = req[r].name
                /\ req[r].name \in DOMAIN logs
                /\ logs[req[r].name].ino = loop[l].f]_vars

\* RunState shows a stopped run and its error
StoppedWithError == ~monitor_state.running /\ monitor_state.error # NoError

\* C6: once a failed run has left RunState stopped with an error message,
\* RunState stays so until the next start request is accepted.
C6_FailureStaysInspectable ==
    [][(StoppedWithError /\ ~StartAccepted) => StoppedWithError']_vars

C8_StopInSleepEndsRun ==
    [][\A l \in Loops :
         (loop[l].pc = "while" /\ loop[l].notified) => loop'[l].pc # "snapshot"]_vars

\* no thread will ever take another step of a run
Quiescent ==
    /\ \A l \in Loops : ~IsAlive(l)
    /\ \A r \in Reqs : req[r].pc \in {"idle", "returned"}

\* C9: a stop request that found a run active is honoured: once every thread
\* has come to rest, RunState shows running = False and no client is open.
C9_StopHonoured ==
    ( /\ Quiescent
      /\ \E r \in Reqs : req[r].op = "stop" /\ req[r].resp = "200" )
    => ( /\ ~monitor_state.running
         /\ \A l \in Loops : loop[l].tn # "open" )

\* what a run does with the address, the password and the interval it read
\* when it began
UsesStartSettings(l) ==
    /\ Goes(l, "login", "name_log") \/ Goes(l, "login", "loginfail") \/ Goes(l, "login", "crashed")
         => loop'[l].sent_password = loop[l].settings.telnet_password
    /\ Goes(l, "snapshot", "write")
         => loop'[l].fetch_host = loop[l].settings.camera_ip
    /\ (loop[l].pc = "sleep" /\ loop'[l].pc # "sleep")
         => loop'[l].sleep_time =
              Max(0, Max(MinInterval, loop[l].settings.interval)
                       - (now - loop[l].snap.ts) * HalfSecondsPerSecond)

Received(c, t) ==
    LET OfCall(m) == m.sample = t
        got == SelectSeq(ws_recv[c], OfCall)
    IN [i \in 1..Len(got) |-> got[i].text]

\* C11: a delivery failure is isolated. When a _send has ended, every
\* websocket of its copy whose send did not raise has received all messages
\* of the sample, in order, and none of the websockets whose send raised is
\* left in ws_clients; no step removes from ws_clients a websocket whose
\* connection is open; and no step of the fan-out changes anything the
\* acquisition loop reads (RunState, the stop event, the log) or undoes a
\* ws_broadcast call that has returned.
C11_SubscriberFailureIsolated ==
    /\ [](\A t \in Tasks :
            ws_tasks[t].pc = "done"
            => /\ \A c \in ws_tasks[t].copy \ ws_tasks[t].dead :
                    Received(c, t) = ws_tasks[t].messages
               /\ ws_tasks[t].dead \cap ws_clients = {})
    /\ [][ /\ \A c \in ws_clients \ ws_clients' : ws_conn[c] # "open"
           /\ UNCHANGED run_vars
           /\ ws_calls' >= ws_calls ]_vars

\* C11 witness: a _send has ended in which the send to one websocket raised
\* and another websocket received both messages of the sample.
C11_Witness ==
    \E t \in Tasks :
      /\ ws_tasks[t].pc = "done"
      /\ Len(ws_tasks[t].messages) = 2
      /\ ws_tasks[t].dead # {}
      /\ \E c \in ws_tasks[t].copy \ ws_tasks[t].dead :
           /\ Received(c, t) = ws_tasks[t].messages
           /\ c \in ws_clients

\* the pcs at which a monitor_loop thread is inside network I/O or inside
\* the interruptible sleep: connect, login, the command round-trips and the
\* HTTP fetch of a tick, the broadcast, the wait
LoopInIO == {"connect", "login", "snapshot", "broadcast", "sleep", "waiting"}

\* C13: no lock is held across network I/O. The thread that holds
\* monitor_lock is at the body of one of its `with monitor_lock:` blocks: a
\* monitor_loop thread is not in connect, login, a tick's round-trips, the
\* broadcast or the sleep, and a request thread is not at the set() and
\* join() of stop_monitor, at a load_settings() or at an unlink().
C13_NoLockAcrossIO ==
    /\ \A l \in Loops :
         monitor_lock = l
         => /\ loop[l].pc \notin LoopInIO
            /\ loop[l].pc \in {"connfail", "loginfail", "publish", "count", "except", "finally"}
    /\ \A r \in Reqs :
         monitor_lock = r
         => req[r].pc \in {"start_check", "start_reset", "stop_check", "delete_check"}

\* C13 witness: a monitor_loop thread holds the lock to count its second
\* sample while the next request has yet to arrive.
C13_Witness ==
    \E l \in Loops :
      /\ monitor_lock = l
      /\ loop[l].pc = "count"
      /\ monitor_state.samples = 1
      /\ \E r \in Reqs : req[r].pc = "idle"

\* C18: the lines of a run's log are never fewer than RunState.samples and
\* at most one more: for every monitor_loop thread that has its log open, the
\* file has samples or samples + 1 lines.
C18_LogLeadsCount ==
    \A l \in Loops :
      ( /\ loop[l].f # NoFile
        /\ loop[l].log_filename \in DOMAIN logs
        /\ logs[loop[l].log_filename].ino = loop[l].f )
      => logs[loop[l].log_filename].lines \in {monitor_state.samples, monitor_state.samples + 1}

\* the pcs of monitor_loop after line 354
LoopPastLogin ==
    {"name_log", "publish", "open", "while", "snapshot", "write", "broadcast", "count",
     "sleep", "waiting", "except", "finally_close", "finally"}

\* C19: sampling is reached only through a successful connect and a login
\* that returned True. A monitor_loop thread that is past line 354, has named
\* or opened a log or has taken a snapshot has connected and got True from
\* login(); and only such a thread creates a log file, assigns current_log or
\* counts a sample.
C19_SamplingOnlyAfterLogin ==
    /\ [](\A l \in Loops :
            ( \/ loop[l].pc \in LoopPastLogin
              \/ loop[l].log_filename # NoLog
              \/ loop[l].f # NoFile
              \/ loop[l].ticks > 0 )
            => (loop[l].tn # "none" /\ loop[l].login_ret))
    /\ [][\A l \in Loops :
            ( /\ loop'[l] # loop[l]
              /\ \/ DOMAIN logs' # DOMAIN logs
                 \/ monitor_state'.current_log # monitor_state.current_log
                 \/ monitor_state'.samples # monitor_state.samples )
            => (loop[l].tn = "open" /\ loop[l].login_ret)]_vars

\* C19 witness: one run has failed its login and left nothing, and another
\* has logged in and counted a sample.
C19_Witness ==
    \E k, l \in Loops :
      /\ loop[k].pc = "done" /\ loop[k].tn = "closed" /\ ~loop[k].login_ret
      /\ loop[k].log_filename = NoLog /\ loop[k].ticks = 0
      /\ loop[l].login_ret /\ loop[l].pc = "sleep"
      /\ monitor_state.samples = 1

\* C20: cancellation does not leak between runs. A monitor_loop thread
\* leaves its while loop on the stop event only if a stop request has arrived
\* after the start request that created the thread (requests arrive in the
\* order of their thread ids, so a stop request with a smaller id arrived
\* before that start request did, and so before it was accepted).
C20_StopDoesNotLeak ==
    [][\A l \in Loops :
         Goes(l, "while", "finally_close")
         => \E r \in Reqs : req[r].op = "stop" /\ r > loop[l].starter]_vars

\* the lines of the run's log
LoggedLines == { log_lines[i] : i \in 1..Len(log_lines) }

\* C12: a status reader never sees a partly built sample. The state a
\* get_status request has copied has no last_sample exactly when its samples
\* is 0, and otherwise its last_sample is equal to a line of the log; and
\* the dict RunState refers to is at all times equal to a line of the log (it
\* was complete when it was attached and is not changed afterwards).
C12_StatusSeesCompleteSample ==
    /\ \A r \in Reqs :
         req[r].pc = "status_return"
         => /\ (req[r].resp.samples = 0) <=> (req[r].resp.last_sample = << >>)
            /\ req[r].resp.samples > 0 => req[r].resp.last_sample \in LoggedLines
    /\ sampler.pc # "unborn"
         => /\ (monitor_state.samples = 0) <=> (monitor_state.last_sample = NoObject)
            /\ monitor_state.last_sample # NoObject
                 => heap[monitor_state.last_sample] \in LoggedLines

\* C12 witness: a get_status request has copied the first sample while the
\* sampling loop is filling in the second one, which has its primary fields
\* and not yet its cpu_percent.
C12_Witness ==
    \E r \in Reqs :
      /\ req[r].pc = "status_return"
      /\ req[r].resp.samples = 1
      /\ req[r].resp.last_sample = log_lines[1]
      /\ sampler.pc = "cpu"
      /\ ComputeCpuPercent(heap[sampler.prev_snap], heap[sampler.snap]) # {}

\* C14: whatever the HTTP API answers, the tick goes on: the step of
\* fetch_isp_info leaves the sample with its primary fields and the loop at
\* the computation of cpu_percent, on its way to the log and to the count.
C14_SecondaryNeverFailsTick ==
    [][(sampler.pc = "fetch" /\ sampler' # sampler)
       => /\ sampler'.pc = "cpu"
          /\ \A k \in DOMAIN heap[sampler.snap] :
               k \in DOMAIN heap'[sampler.snap] /\ heap'[sampler.snap][k] = heap[sampler.snap][k]]_vars

\* C16: for two consecutive samples of the run that both carry the cpu
\* counters, cpu_percent is present exactly when cpu_total has grown, and is
\* then between 0 and 100 (in tenths).
C16_CpuPercentInRange ==
    (sampler.pc = "write" /\ sampler.prev_snap # NoObject)
    => LET prev == heap[sampler.prev_snap]
           curr == heap[sampler.snap]
       IN ("cpu_total" \in DOMAIN prev /\ "cpu_total" \in DOMAIN curr)
          => IF curr["cpu_total"] > prev["cpu_total"]
               THEN /\ "cpu_percent" \in DOMAIN curr
                    /\ curr["cpu_percent"] >= 0
                    /\ curr["cpu_percent"] <= 1000
               ELSE "cpu_percent" \notin DOMAIN curr

\* C15: on the broadcast path a mem_used_percent message is emitted only for
\* a snapshot that has both mem_memtotal_kb and mem_memfree_kb with
\* mem_memtotal_kb > 0, and then carries 100 * (total - free) / total rounded
\* to one decimal (in tenths).
C15_MemUsedPercentNeedsBoth ==
    \A t \in Tasks :
      \A i \in 1..Len(ws_tasks[t].messages) :
        ws_tasks[t].messages[i].key = "radcam-mem-used-percent"
        => LET snap == ws_tasks[t].snap
           IN /\ "mem_memtotal_kb" \in DOMAIN snap
              /\ "mem_memfree_kb" \in DOMAIN snap
              /\ snap["mem_memtotal_kb"] > 0
              /\ ws_tasks[t].messages[i].val =
                   Round1(100 * (snap["mem_memtotal_kb"] - snap["mem_memfree_kb"]),
                          snap["mem_memtotal_kb"])


\* C17: the read-path derivation is idempotent. Whenever the lines a handler
\* looped over are the records an earlier response returned, its response
\* returns these same records; and two calls that looped over the same lines
\* returned the same records.
C17_DerivationIdempotent ==
    \A i, j \in 1..Len(reader.calls) :
      LET a == reader.calls[i]
          b == reader.calls[j]
      IN /\ b.input = DumpedAll(a.output) => b.output = a.output
         /\ b.input = a.input => b.output = a.output

\* C17 witness: a response of two records whose second got its cpu_percent
\* and its mem_used_percent from the derivation has been read again.
C17_Witness ==
    /\ Len(reader.calls) = 2
    /\ LET a == reader.calls[1]
           b == reader.calls[2]
       IN /\ Len(a.input) = 2 /\ Len(a.output) = 2
          /\ "cpu_percent" \notin DOMAIN a.input[2].rec
          /\ "cpu_percent" \in DOMAIN a.output[2]
          /\ "mem_used_percent" \in DOMAIN a.output[2]
          /\ a.output[2].mem_used_percent > 0
          /\ b.input = DumpedAll(a.output)
          /\ Len(b.output) = 2

\* C21: RunState.error and RunState.running are consistent in every snapshot
\* a reader takes: the state get_status has copied never has error set while
\* running is true.
C21_ErrorMeansNotRunning ==
    \A r \in Reqs :
      (req[r].op = "status" /\ req[r].pc = "status_return")
      => (req[r].resp.error # NoError => ~req[r].resp.running)

====
